---- MODULE Spec2Model ----
(***************************************************************************)
(* Model of positional-tokenizer (src/src/index.ts): the Rule and          *)
(* Tokenizer classes.  One Tokenizer instance is followed through its      *)
(* construction, update() calls and tokenize() calls; a tokenize() call is *)
(* followed one iteration of its outer for-loop at a time.                 *)
(*                                                                         *)
(* Text is a sequence of UTF-16 code units (one-character strings);        *)
(* positions are 0-based as in the source, so text[cursor] of the source   *)
(* is chars[cursor + 1] here.                                              *)
(***************************************************************************)
EXTENDS Integers, Sequences, FiniteSets, TLC

(* ---------------------------- bounds ----------------------------------- *)
MaxLen == 3
MaxRules == 2

(* ------------------------- characters ---------------------------------- *)
\* a letter (Ll), a dash (Pd) and a control character (Cc)
Alphabet == {"a", "-", "\t"}

\* Unicode general category (major class) of the characters of the model
GeneralCategory(c) ==
    CASE c = "a"  -> "L"
      [] c = "-"  -> "P"
      [] c = "\t" -> "C"

\* enum TokenizeWord.COMPLEX = "[\\p{L}\\p{Pd}']"
COMPLEX == "[\\p{L}\\p{Pd}']"

\* the characters a /\p{X}/u property escape accepts
PropertyEscape(code) == {c \in Alphabet : GeneralCategory(c) = code}

\* the characters the known pattern strings that compile accept
KnownPatterns == {"L", "N", "Z", "P", "S", "C", COMPLEX}

(* ------------------------------ Rule ----------------------------------- *)
\* A RegExp object is modelled by its source (a sequence of parts), by the set of one-character
\* strings it accepts from lastIndex 0 and by whether it carries the g (or
\* y) flag; its lastIndex is mutable state and lives in the variable
\* lastIndex.
RegExpObj(source, cls, global) == [source |-> source, cls |-> cls, global |-> global]

\* Rule.toRegex: new RegExp(pattern, "u"); "\p{undefined}" and any other
\* unknown property name make the RegExp constructor throw a SyntaxError.
toRegex(patternStr) ==
    IF patternStr = COMPLEX
    THEN [throws |-> FALSE,
          regex |-> RegExpObj(<<COMPLEX>>, PropertyEscape("L") \cup PropertyEscape("P"), FALSE)]
    ELSE IF patternStr \in KnownPatterns
         THEN [throws |-> FALSE,
               regex |-> RegExpObj(<<"\\p{", patternStr, "}">>, PropertyEscape(patternStr), FALSE)]
         ELSE [throws |-> TRUE, regex |-> RegExpObj(<<>>, {}, FALSE)]

\* An instruction is the object literal given to captureMono/captureGroup:
\* keys is the sequence Object.keys(instruction), value the value of the
\* first key: a pattern string, a RegExp object, or "undefined".
Instruction(keys, isRegExp, pattern, regex) ==
    [keys |-> keys, isRegExp |-> isRegExp, pattern |-> pattern, regex |-> regex]

NoRegExp == RegExpObj(<<>>, {}, FALSE)

\* new Rule(type, regex, captureAsAGroup)
Rule(type, value, captureAsAGroup) ==
    LET rx == IF value.isRegExp
              THEN [throws |-> FALSE, regex |-> value.regex]
              ELSE toRegex(value.pattern)
    IN [throws |-> rx.throws, t |-> type, r |-> rx.regex, g |-> captureAsAGroup]

\* Object.keys(instruction)[0]: "undefined" when there is no key
FirstKey(instruction) ==
    IF Len(instruction.keys) = 0 THEN "undefined" ELSE instruction.keys[1]

\* instruction[type]: undefined when the key is absent
ValueOf(instruction) ==
    IF Len(instruction.keys) = 0
    THEN Instruction(<<>>, FALSE, "undefined", NoRegExp)
    ELSE instruction

captureMono(instruction) == Rule(FirstKey(instruction), ValueOf(instruction), FALSE)

captureGroup(instruction) == Rule(FirstKey(instruction), ValueOf(instruction), TRUE)

(* ------------------- the rules the caller has built -------------------- *)
\* The calls of captureMono/captureGroup the caller makes, each once; the
\* Rule objects they return are then passed, in lists, to the constructor
\* and to update().  Entries 1..5 are the calls of the constructor's own
\* fallback list, in its order.
Built ==
    << captureGroup(Instruction(<<"word">>, FALSE, "L", NoRegExp)),
       captureGroup(Instruction(<<"number">>, FALSE, "N", NoRegExp)),
       captureMono(Instruction(<<"space">>, FALSE, "Z", NoRegExp)),
       captureMono(Instruction(<<"punctuation">>, FALSE, "P", NoRegExp)),
       captureGroup(Instruction(<<"symbol">>, FALSE, "S", NoRegExp)),
       captureGroup(Instruction(<<"hyphenated">>, FALSE, COMPLEX, NoRegExp)),
       captureMono(Instruction(<<"dash">>, FALSE, "P", NoRegExp)),
       captureMono(Instruction(<<"">>, FALSE, "L", NoRegExp)),
       captureGroup(Instruction(<<"sticky">>, TRUE, "", RegExpObj(<<"a">>, {"a"}, TRUE))),
       captureMono(Instruction(<<>>, FALSE, "undefined", NoRegExp)),
       captureGroup(Instruction(<<"nopattern">>, FALSE, "undefined", NoRegExp)) >>

\* the calls that returned a Rule (the others threw and returned nothing)
RuleIds == {i \in DOMAIN Built : ~Built[i].throws}

\* the Rule objects the caller puts in its own lists
CallerRules == {i \in RuleIds : i > 5}

BoundedSeq(S, n) == UNION {[1..k -> S] : k \in 0..n}

\* the lists the caller passes: up to MaxRules distinct Rule objects
RuleLists ==
    {l \in BoundedSeq(CallerRules, MaxRules) :
        \A i, j \in DOMAIN l : i # j => l[i] # l[j]}

Texts == BoundedSeq(Alphabet, MaxLen)

(* ------------------------------ inputs --------------------------------- *)
Value(kind, chars) == [kind |-> kind, chars |-> chars]

\* what a caller may hand to tokenize(): a string, a String object, or
\* something that is no string at all
Inputs ==
    {Value("string", t) : t \in Texts}
    \cup {Value("String", t) : t \in BoundedSeq(Alphabet, 1)}
    \cup {Value(k, <<>>) : k \in {"undefined", "null", "number", "object"}}

typeof(x) ==
    CASE x.kind = "string" -> "string"
      [] x.kind = "undefined" -> "undefined"
      [] x.kind = "number" -> "number"
      [] OTHER -> "object"

\* isString without its type test: every value goes on to the scan
isString_Always(text) == TRUE

\* Tokenizer.isString
isString(text) == typeof(text) = "string" \/ text.kind = "String"

\* text.length: a TypeError on undefined and null, undefined (here -1, so
\* that cursor < size is false) on a number and on a plain object
Undefined == 0 - 1

lengthOf(text) ==
    [throws |-> text.kind \in {"undefined", "null"},
     value |-> IF text.kind \in {"string", "String"} THEN Len(text.chars) ELSE Undefined]

(* --------------------------- RegExp.test -------------------------------- *)
\* regex.test(char) on a one-character string.  Without the g/y flag
\* lastIndex is neither read nor written.  With it the match starts at
\* lastIndex: from 0 a matching character succeeds and leaves lastIndex 1;
\* from 1 (the end of the string) the match fails; every failure resets
\* lastIndex to 0.
test(regex, li, char) ==
    IF ~regex.global
    THEN [ok |-> char \in regex.cls, li |-> li]
    ELSE IF li = 0 /\ char \in regex.cls
         THEN [ok |-> TRUE, li |-> 1]
         ELSE [ok |-> FALSE, li |-> 0]

(* ---------------------------- tokenize --------------------------------- *)
Token(i, type, value, position) == [i |-> i, t |-> type, v |-> value, p |-> position]

\* for (const rule of this._rules) if (rule.regex.test(char)) ...: the
\* rules are tested in list order from the k-th on, each test acting on its
\* rule's lastIndex; hit is the index of the first rule whose test
\* succeeded, 0 when none did.
RECURSIVE ruleLoop(_, _, _, _)
ruleLoop(rules, k, char, li) ==
    IF k > Len(rules)
    THEN [hit |-> 0, li |-> li]
    ELSE LET id == rules[k]
             res == test(Built[id].r, li[id], char)
             li2 == [li EXCEPT ![id] = res.li]
         IN IF res.ok THEN [hit |-> k, li |-> li2]
                      ELSE ruleLoop(rules, k + 1, char, li2)

\* while (end < size) { if (rule.regex.test(text[end])) {value += ..; end++}
\* else break }
RECURSIVE captureLoop(_, _, _, _, _, _)
captureLoop(id, chars, size, end, value, li) ==
    IF ~(end < size)
    THEN [end |-> end, value |-> value, li |-> li]
    ELSE LET nextChar == chars[end + 1]
             res == test(Built[id].r, li[id], nextChar)
             li2 == [li EXCEPT ![id] = res.li]
         IN IF res.ok
            THEN captureLoop(id, chars, size, end + 1, Append(value, nextChar), li2)
            ELSE [end |-> end, value |-> value, li |-> li2]

\* let position = [cursor, cursor + 1]
monoPosition(cursor) == <<cursor, cursor + 1>>

\* the span with an inclusive end
groupPosition_Inclusive(cursor, end) == <<cursor, end - 1>>

\* position = [cursor, end]
groupPosition(cursor, end) == <<cursor, end>>

\* the cursor left on the character after the run, which cursor++ then skips
groupCursor_Skip(end) == end

\* the cursor set one character too far back: after a run of one character
\* cursor++ brings it back to where it was
groupCursor_Back(end) == end - 2

\* cursor = end - 1
groupCursor(end) == end - 1

\* the token indexed by its start offset instead of tokens.length
push_StartAsIndex(tokens, type, value, position) ==
    Append(tokens, Token(position[1], type, value, position))

\* tokens.push(new Token(tokens.length, type, value, position))
push(tokens, type, value, position) ==
    Append(tokens, Token(Len(tokens), type, value, position))

\* the body of the outer for-loop at cursor, followed by its cursor++
loopBody(rules, chars, size, cursor, tokens, li) ==
    LET char == chars[cursor + 1]
        m == ruleLoop(rules, 1, char, li)
    IN IF m.hit = 0
       THEN [cursor |-> cursor + 1, tokens |-> tokens, li |-> m.li, hit |-> 0]
       ELSE LET id == rules[m.hit]
                rule == Built[id]
            IN IF rule.g
               THEN LET c == captureLoop(id, chars, size, cursor + 1, <<char>>, m.li)
                    IN [cursor |-> groupCursor(c.end) + 1,
                        tokens |-> push(tokens, rule.t, c.value, groupPosition(cursor, c.end)),
                        li |-> c.li, hit |-> m.hit]
               ELSE [cursor |-> cursor + 1,
                     tokens |-> push(tokens, rule.t, <<char>>, monoPosition(cursor)),
                     li |-> m.li, hit |-> m.hit]

\* the whole for-loop from cursor on
RECURSIVE forLoop(_, _, _, _, _, _)
forLoop(rules, chars, size, cursor, tokens, li) ==
    IF ~(cursor < size)
    THEN [tokens |-> tokens, li |-> li]
    ELSE LET b == loopBody(rules, chars, size, cursor, tokens, li)
         IN forLoop(rules, chars, size, b.cursor, b.tokens, b.li)

(* ----------------------- constructor and update ------------------------ *)
\* the constructor's fallback list
FallbackRules == <<1, 2, 3, 4, 5>>

\* this.r = rules ? rules : [...]: an array, even an empty one, is truthy
constructor(omitted, rules) == IF omitted THEN FallbackRules ELSE rules

\* the new rules appended to the active list instead of replacing it
update_Append(old, rules) == old \o rules

\* this.r = rules
update(old, rules) == rules

\* return this
updateReturn(this) == this

(* ------------------------------ state ---------------------------------- *)
VARIABLES
    r,          \* Tokenizer.r, the active rule list (Rule object ids)
    lastIndex,  \* lastIndex of each Rule object's RegExp
    pc,         \* "idle", "loop" (inside tokenize's for-loop), "done" (tokenize returned)
    text,       \* the argument of the current or last tokenize call
    size,       \* const size = text.length
    cursor,     \* the for-loop's cursor
    tokens,     \* const tokens; once pc = "done", the array the caller received
    thrown,     \* whether the last tokenize call threw
    ret,        \* what the last update() returned: an object identity
    how,        \* history: where r comes from: "omitted", "list" or "update"
    arg,        \* history: the list last given to the constructor or to update
    dropped     \* history: the cursors at which no rule's test succeeded

vars == <<r, lastIndex, pc, text, size, cursor, tokens, thrown, ret, how, arg, dropped>>

\* object identities: the Tokenizer itself and nothing yet returned
This == "this"
Nothing == "nothing"

NoText == Value("undefined", <<>>)

Init ==
    /\ \E omitted \in BOOLEAN : \E rules \in RuleLists :
          /\ omitted => rules = <<>>
          /\ r = constructor(omitted, rules)
          /\ how = IF omitted THEN "omitted" ELSE "list"
          /\ arg = rules
    /\ lastIndex = [i \in RuleIds |-> 0]
    /\ pc = "idle"
    /\ text = NoText
    /\ size = 0
    /\ cursor = 0
    /\ tokens = <<>>
    /\ thrown = FALSE
    /\ ret = Nothing
    /\ dropped = {}

\* tokenize(text) up to the first test of the for-loop's condition
CallTokenize(input) ==
    /\ pc \in {"idle", "done"}
    /\ text' = input
    /\ tokens' = <<>>
    /\ cursor' = 0
    /\ dropped' = {}
    /\ IF ~isString(input)
       THEN /\ pc' = "done"
            /\ thrown' = FALSE
            /\ size' = 0
       ELSE LET n == lengthOf(input)
            IN IF n.throws
               THEN /\ pc' = "done"
                    /\ thrown' = TRUE
                    /\ size' = 0
               ELSE /\ pc' = "loop"
                    /\ thrown' = FALSE
                    /\ size' = n.value
    /\ UNCHANGED <<r, lastIndex, ret, how, arg>>

\* one iteration of the for-loop
LoopIteration ==
    /\ pc = "loop"
    /\ cursor < size
    /\ LET b == loopBody(r, text.chars, size, cursor, tokens, lastIndex)
       IN /\ cursor' = b.cursor
          /\ tokens' = b.tokens
          /\ lastIndex' = b.li
          /\ dropped' = IF b.hit = 0 THEN dropped \cup {cursor} ELSE dropped
    /\ UNCHANGED <<r, pc, text, size, thrown, ret, how, arg>>

\* return tokens
ReturnTokens ==
    /\ pc = "loop"
    /\ ~(cursor < size)
    /\ pc' = "done"
    /\ UNCHANGED <<r, lastIndex, text, size, cursor, tokens, thrown, ret, how, arg, dropped>>

\* update(rules), between two tokenize calls; what earlier calls returned
\* stays in the caller's hands
CallUpdate(rules) ==
    /\ pc \in {"idle", "done"}
    /\ r' = update(r, rules)
    /\ ret' = updateReturn(This)
    /\ how' = "update"
    /\ arg' = rules
    /\ pc' = "idle"
    /\ UNCHANGED <<lastIndex, text, size, cursor, tokens, thrown, dropped>>

Next ==
    \/ \E input \in Inputs : CallTokenize(input)
    \/ LoopIteration
    \/ ReturnTokens
    \/ \E rules \in RuleLists : CallUpdate(rules)

Spec == Init /\ [][Next]_vars

\* A caller that makes its Tokenizer with new Tokenizer(), may give it
\* another list with update() before the first tokenize call, and then
\* tokenizes any number of texts.  A call meets nothing but the active list
\* and the lastIndex values the calls before it left, and each list with
\* each of these values is met this way too.
ScanInit == Init /\ how = "omitted"

Configure(rules) == pc = "idle" /\ CallUpdate(rules)

ScanNext ==
    \/ \E input \in Inputs : CallTokenize(input)
    \/ LoopIteration
    \/ ReturnTokens
    \/ \E rules \in RuleLists : Configure(rules)

\* tokenize is synchronous: once called, its for-loop runs on and it
\* returns; nothing else runs on the thread meanwhile
FairSpec ==
    ScanInit /\ [][ScanNext]_vars /\ WF_vars(LoopIteration) /\ WF_vars(ReturnTokens)

TypeOK ==
    /\ r \in RuleLists \cup {FallbackRules}
    /\ pc \in {"idle", "loop", "done"}
    /\ cursor \in 0..(MaxLen + 1)

(* ======================= properties of tokenize ======================== *)
\* a tokenize call on a string has returned; r is still the list it used,
\* since update() leaves pc = "idle"
Returned == pc = "done" /\ isString(text)

start(tk) == tk.p[1]
end(tk) == tk.p[2]

\* the rule's predicate: whether its pattern accepts the character
Pred(id, c) == c \in Built[id].r.cls

\* the positions (1-based) in the list of the rules whose predicate accepts c
Matching(rules, c) == {k \in DOMAIN rules : Pred(rules[k], c)}

FirstMatching(rules, c) ==
    CHOOSE k \in Matching(rules, c) : \A j \in Matching(rules, c) : k <= j

RECURSIVE ConcatValues(_)
ConcatValues(tks) ==
    IF tks = <<>> THEN <<>> ELSE Head(tks).v \o ConcatValues(Tail(tks))

IsMatched(c) == Matching(r, c) # {}

\* the characters of the text from position from (0-based) up to to, exclusive
Slice(chars, from, to) == SubSeq(chars, from + 1, to)

(* C1 as stated: the tokens of one tokenize call cover the text
   contiguously: each token ends where the next one starts, and the first
   token starts at 0. *)
C1_ContiguousCoverage ==
    Returned =>
        /\ \A i \in 1..(Len(tokens) - 1) : end(tokens[i]) = start(tokens[i + 1])
        /\ tokens # <<>> => start(tokens[1]) = 0

(* C1 amended: every position before the first token or between two
   consecutive tokens is a character that no rule's test accepted and that
   was dropped; so the tokens are contiguous from 0 when no character
   before the last token was dropped. *)
C1_GapsAreDroppedCharacters ==
    Returned =>
        /\ \A i \in 1..(Len(tokens) - 1) :
              \A q \in end(tokens[i])..(start(tokens[i + 1]) - 1) : q \in dropped
        /\ tokens # <<>> => \A q \in 0..(start(tokens[1]) - 1) : q \in dropped

\* a call that dropped a character before its first token and then
\* returned two tokens that touch
C1_Witness ==
    /\ Returned
    /\ Len(tokens) >= 2
    /\ start(tokens[1]) > 0
    /\ end(tokens[1]) = start(tokens[2])

(* C2 as stated: the concatenation of the token values is the text without
   its unmatched characters, a character being unmatched when no rule's
   predicate accepts it. *)
C2_ValuesAreTheMatchedCharacters ==
    Returned => ConcatValues(tokens) = SelectSeq(text.chars, IsMatched)

(* C3 as stated: a token's type is the type of the first rule in list order
   whose predicate accepts the token's first character, and the whole token
   is made of characters that rule accepts. *)
C3_FirstMatchingRuleWins ==
    Returned =>
        \A i \in DOMAIN tokens :
            LET c == text.chars[start(tokens[i]) + 1]
            IN /\ Matching(r, c) # {}
               /\ tokens[i].t = Built[r[FirstMatching(r, c)]].t
               /\ \A q \in start(tokens[i])..(end(tokens[i]) - 1) :
                     Pred(r[FirstMatching(r, c)], text.chars[q + 1])

(* C4 as stated: a MONO rule's token covers one character; a MULTI rule's
   token covers the maximal run: every character in it satisfies the rule's
   predicate and the run ends at the end of the text or before a character
   that does not satisfy it.  produced[i] names the rule of token i. *)
C4_CaptureModeDecidesExtent ==
    Returned =>
        \A i \in DOMAIN tokens :
            \E k \in DOMAIN r :
                LET rule == Built[r[k]]
                    s == start(tokens[i])
                    e == end(tokens[i])
                IN /\ rule.t = tokens[i].t
                   /\ Pred(r[k], text.chars[s + 1])
                   /\ tokens[i].v = Slice(text.chars, s, e)
                   /\ IF rule.g
                      THEN /\ \A q \in s..(e - 1) : Pred(r[k], text.chars[q + 1])
                           /\ e = Len(text.chars) \/ ~Pred(r[k], text.chars[e + 1])
                      ELSE e = s + 1

(* C5: the k-th token (from 0) of a call has index k. *)
C5_IndexIsEmissionOrder ==
    \A k \in DOMAIN tokens : tokens[k].i = k - 1

C5_Witness == Returned /\ Len(tokens) >= 3

(* C6: the spans are within the text, non-empty, ordered and
   non-overlapping, and two consecutive tokens touch when no character was
   dropped between them. *)
C6_SpansOrdered ==
    Returned =>
        /\ \A i \in DOMAIN tokens :
              /\ 0 <= start(tokens[i])
              /\ start(tokens[i]) < end(tokens[i])
              /\ end(tokens[i]) <= Len(text.chars)
        /\ \A i \in 1..(Len(tokens) - 1) :
              /\ end(tokens[i]) <= start(tokens[i + 1])
              /\ (dropped \cap (end(tokens[i])..(start(tokens[i + 1]) - 1)) = {})
                    => end(tokens[i]) = start(tokens[i + 1])

\* two tokens with a dropped character between them
C6_Witness ==
    /\ Returned
    /\ Len(tokens) = 2
    /\ end(tokens[1]) < start(tokens[2])
    /\ dropped = {end(tokens[1])}

(* C7: tokenize of something that is no string, or of the empty string,
   returns no token and throws nothing, whatever the rules. *)
C7_NonStringYieldsNothing ==
    (pc = "done" /\ (~(text.kind \in {"string", "String"}) \/ text.chars = <<>>))
        => (tokens = <<>> /\ ~thrown)

C7_Witness == pc = "done" /\ text.kind = "undefined" /\ r # <<>> /\ how = "update"

\* C2, C3 and C4 fail only through a RegExp that keeps state between tests:
\* they hold of every call whose active rules have no g/y flag.
StatelessRules == \A k \in DOMAIN r : ~Built[r[k]].r.global

StatelessRulesLemma ==
    StatelessRules =>
        /\ C2_ValuesAreTheMatchedCharacters
        /\ C3_FirstMatchingRuleWins
        /\ C4_CaptureModeDecidesExtent

(* ================== properties of the configuration ==================== *)
\* the default list as the README documents it ("Default rules")
DocumentedDefaults ==
    << [t |-> "word", g |-> TRUE, source |-> <<"\\p{", "L", "}">>],
       [t |-> "space", g |-> FALSE, source |-> <<"\\p{", "Z", "}">>],
       [t |-> "punctuation", g |-> FALSE, source |-> <<"\\p{", "P", "}">>],
       [t |-> "number", g |-> TRUE, source |-> <<"\\p{", "N", "}">>],
       [t |-> "symbol", g |-> TRUE, source |-> <<"\\p{", "S", "}">>] >>

Describe(id) == [t |-> Built[id].t, g |-> Built[id].g, source |-> Built[id].r.source]

(* C8 as stated: a Tokenizer constructed without a rule list or with an
   empty one has the five default rules word, space, punctuation, number,
   symbol in this order, and so an empty list tokenizes as no list does. *)
C8_DefaultsWhenOmittedOrEmpty ==
    (how = "omitted" \/ (how = "list" /\ arg = <<>>)) =>
        /\ [k \in DOMAIN r |-> Describe(r[k])] = DocumentedDefaults
        /\ Returned =>
              tokens = forLoop(FallbackRules, text.chars, size, 0, <<>>, lastIndex).tokens

\* a step of update(): the only steps that end with pc = "idle"
UpdateStep == pc \in {"idle", "done"} /\ pc' = "idle"

(* C9: update(R) makes R the active list and returns the Tokenizer itself;
   every loop iteration of a later tokenize call is computed from R alone;
   the update leaves what earlier tokenize calls returned as it was. *)
C9_UpdateReplacesRules ==
    /\ [](how = "update" => (r = arg /\ ret = This))
    /\ [][ /\ UpdateStep
                => (tokens' = tokens /\ text' = text /\ dropped' = dropped)
           /\ (how = "update" /\ pc = "loop" /\ cursor < size)
                => LET b == loopBody(arg, text.chars, size, cursor, tokens, lastIndex)
                   IN tokens' = b.tokens /\ cursor' = b.cursor /\ lastIndex' = b.li
         ]_vars

\* a tokenize call that returned tokens under a list installed by update
C9_Witness ==
    /\ how = "update"
    /\ ret = This
    /\ Returned
    /\ Len(r) = MaxRules
    /\ Len(tokens) >= 2

(* C10 as stated: no rule with an empty or missing type, or with a missing
   pattern, is ever active, no token has an empty or missing type, and
   tokenize throws nothing. *)
C10_NoInvalidRuleActive ==
    /\ \A k \in DOMAIN r :
          /\ ~(Built[r[k]].t \in {"", "undefined"})
          /\ Built[r[k]].r.source # <<>>
    /\ \A i \in DOMAIN tokens : ~(tokens[i].t \in {"", "undefined"})
    /\ ~thrown

(* ============================ termination ============================== *)
\* a step of the for-loop: the only steps that leave pc = "loop" as it is
LoopStep == pc = "loop" /\ pc' = "loop"

(* C11: tokenize is total: no call throws, the cursor of the for-loop
   strictly increases on every iteration and never exceeds the text length,
   and every call that entered the loop returns its tokens. *)
C11_TokenizeIsTotal ==
    /\ [](~thrown)
    /\ [](pc = "loop" => cursor <= size)
    /\ [][LoopStep => (cursor < cursor' /\ cursor' <= size)]_vars
    /\ (pc = "loop") ~> (pc = "done" /\ cursor = size)

\* a call on a text of full length returned after dropping a character and
\* emitting a run of several characters
C11_Witness ==
    /\ Returned
    /\ cursor = size
    /\ size = MaxLen
    /\ dropped # {}
    /\ \E i \in DOMAIN tokens : Len(tokens[i].v) >= 2

(* ========================= order and purity ============================ *)
\* no character is accepted by the patterns of two rules of the list
PairwiseDisjoint(rules) ==
    \A i, j \in DOMAIN rules :
        i # j => Built[rules[i]].r.cls \cap Built[rules[j]].r.cls = {}

\* the lists with the rules of the given list in another order
Reorderings(rules) ==
    {[k \in DOMAIN rules |-> rules[f[k]]] : f \in Permutations(DOMAIN rules)}

\* a tokenize call is about to run its for-loop: lastIndex is as the call
\* found it and text is its argument
Entered == pc = "loop" /\ cursor = 0 /\ tokens = <<>> /\ dropped = {}

\* what tokenize(text) returns with the given active list, from the
\* lastIndex values of the current state
tokenize(rules) == forLoop(rules, text.chars, size, 0, <<>>, lastIndex).tokens

(* C12 as stated: when no character satisfies two rules of the active
   list, the tokens a tokenize call returns are the same for every order of
   the list: same count, indices, types, values and positions. *)
C12_OrderIndependentWhenDisjoint ==
    (Entered /\ PairwiseDisjoint(r)) =>
        \A other \in Reorderings(r) : tokenize(other) = tokenize(r)

(* C13 as stated: predicate evaluation carries no state: a second tokenize
   call with the same text and no update in between returns the same
   tokens, and whether a rule's test accepts a character does not depend on
   the tests made before. *)
C13_PredicateEvaluationIsStateless ==
    /\ Returned => tokenize(r) = tokens
    /\ \A k \in DOMAIN r : \A c \in Alphabet :
          test(Built[r[k]].r, lastIndex[r[k]], c).ok = test(Built[r[k]].r, 0, c).ok

\* C12 and C13 fail only through a RegExp that keeps state between tests
StatelessOrderLemma ==
    StatelessRules =>
        /\ C12_OrderIndependentWhenDisjoint
        /\ C13_PredicateEvaluationIsStateless

\* a call entered with two disjoint stateless rules in the list, or with
\* the five fallback rules
StatelessOrderCase ==
    /\ Entered
    /\ StatelessRules
    /\ PairwiseDisjoint(r)
    /\ Len(r) >= 2
    /\ size = MaxLen

====
